---- MODULE Spec2Model ----
(***************************************************************************)
(* A model of engelsjk/criticalityscore: the command-line run              *)
(* (LoadRepository followed by RepositoryStats), the nine concurrent       *)
(* metric providers behind a sync.WaitGroup, and the scoring arithmetic.   *)
(*                                                                         *)
(* Number representation.  A Go float64 is modelled as a fixed-point       *)
(* integer counting thousandths (1.0 is 1000, 0.5 is 500, 101.4 is         *)
(* 101400).  A Go int is an Integer.  math.Log is the table Log, which     *)
(* holds 10000*ln(x) for the arguments the model uses.  CriticalityScore   *)
(* is kept as the integer math.Round(x*100000), i.e. in units of 1e-5.     *)
(* A time.Duration (int64 nanoseconds) is a little-endian sequence of      *)
(* eight base-256 limbs, so that 64-bit wrap-around is computed exactly.   *)
(***************************************************************************)
EXTENDS Integers, Sequences, FiniteSets, TLC

\* ------------------------------------------------------------------------
\* Bounds of the model
\* ------------------------------------------------------------------------

\* at most this many remote calls deviate from the plain successful answer
MaxFailures == 1

\* longest additional-parameter list handed to RepositoryStats
MaxParams == 2

\* largest p and maxValue (in tenths) tried on ParamScore alone
MaxTenths == 12

\* contributor lists start at rank 1 + shift of the remote's users, shift
\* at most this
MaxShift == 3

\* users whose lookup may fail are among the first this many
MaxUnresolved == 1

\* tag counts go up to ten times this
MaxTagTens == 2

\* a search page is made of at most this many pieces
MaxChunks == 3

\* a Link header holds at most this many links
MaxLinks == 2

\* ------------------------------------------------------------------------
\* Program constants
\* ------------------------------------------------------------------------

CreatedSinceWeight == 1000
UpdatedSinceWeight == -1000
ContributorCountWeight == 2000
OrgCountWeight == 1000
CommitFrequencyWeight == 1000
RecentReleasesWeight == 500
ClosedIssuesWeight == 500
UpdatedIssuesWeight == 500
CommentFrequencyWeight == 1000
DependentsCountWeight == 2000

CreatedSinceThreshold == 120000
UpdatedSinceThreshold == 120000
ContributorCountThreshold == 5000000
OrgCountThreshold == 10000
CommitFrequencyThreshold == 1000000
RecentReleasesThreshold == 26000
ClosedIssuesThreshold == 5000000
UpdatedIssuesThreshold == 5000000
CommentFrequencyThreshold == 15000
DependentsCountThreshold == 500000000

TopContributorCount == 15

\* wg.Add(9)
NumUnits == 9

\* rateLimits.Core.Remaining < 50
RateLimitFloor == 50

\* time.Second, in nanoseconds
Second == 1000000000

\* the errors of the package
NoError == "nil"
ErrInvalidParamFormat == "ErrInvalidParamFormat"
ErrInvalidGitHubURL == "ErrInvalidGitHubURL"
ErrRepoNotFound == "ErrRepoNotFound"
ErrCommitFrequencyBeingCalculated == "ErrCommitFrequencyBeingCalculated"
\* an error value handed back by the go-github client
ErrClient == "ErrClient"
\* an error a library caller stored in the exported field Error
ErrCaller == "ErrCaller"

\* ------------------------------------------------------------------------
\* Arithmetic helpers
\* ------------------------------------------------------------------------

Max(a, b) == IF a >= b THEN a ELSE b

\* math.Round of n/d for n >= 0, d > 0: halves round away from zero
RoundDivNat(n, d) == (n \div d) + (IF 2 * (n % d) >= d THEN 1 ELSE 0)

\* math.Round of n/d for d > 0
RoundDiv(n, d) == IF n >= 0 THEN RoundDivNat(n, d) ELSE 0 - RoundDivNat(0 - n, d)

\* float64(v) of an int v
Float(v) == 1000 * v

\* math.Log: 10000 * ln(x / 1000) on the arguments in use
Log ==
    (1000 :> 0) @@ (1100 :> 953) @@ (1200 :> 1823) @@ (1300 :> 2624) @@
    (1400 :> 3365) @@ (1500 :> 4055) @@ (1600 :> 4700) @@ (1700 :> 5306) @@
    (1800 :> 5878) @@ (1900 :> 6419) @@ (2000 :> 6931) @@ (2100 :> 7419) @@
    (2200 :> 7885) @@ (2300 :> 8329) @@ (2400 :> 8755) @@ (2500 :> 9163) @@
    (2600 :> 9555) @@ (2700 :> 9933) @@ (2800 :> 10296) @@ (2900 :> 10647) @@
    (3000 :> 10986) @@ (3100 :> 11314) @@ (3200 :> 11632) @@
    (3300 :> 11939) @@ (3400 :> 12238) @@ (3500 :> 12528) @@
    (3600 :> 12809) @@ (3700 :> 13083) @@ (3800 :> 13350) @@
    (3900 :> 13610) @@ (4000 :> 13863) @@ (4100 :> 14110) @@
    (4200 :> 14351) @@ (4300 :> 14586) @@ (4400 :> 14816) @@
    (4500 :> 15041) @@ (4600 :> 15261) @@ (4700 :> 15476) @@
    (4800 :> 15686) @@ (4900 :> 15892) @@ (5000 :> 16094) @@
    (5100 :> 16292) @@ (5200 :> 16487) @@ (5300 :> 16677) @@
    (5400 :> 16864) @@ (5500 :> 17047) @@ (5600 :> 17228) @@
    (5700 :> 17405) @@ (5800 :> 17579) @@ (5900 :> 17750) @@
    (6000 :> 17918) @@ (6100 :> 18083) @@ (6200 :> 18245) @@
    (6300 :> 18405) @@ (6400 :> 18563) @@ (6500 :> 18718) @@
    (6600 :> 18871) @@ (6700 :> 19021) @@ (6800 :> 19169) @@
    (6900 :> 19315) @@ (7000 :> 19459) @@ (7100 :> 19601) @@
    (7200 :> 19741) @@ (7300 :> 19879) @@ (7400 :> 20015) @@
    (7500 :> 20149) @@ (7600 :> 20281) @@ (7700 :> 20412) @@
    (7800 :> 20541) @@ (7900 :> 20669) @@ (8000 :> 20794) @@
    (8100 :> 20919) @@ (8200 :> 21041) @@ (8300 :> 21163) @@
    (8400 :> 21282) @@ (8500 :> 21401) @@ (8600 :> 21518) @@
    (8700 :> 21633) @@ (8800 :> 21748) @@ (8900 :> 21861) @@
    (9000 :> 21972) @@ (11000 :> 23979) @@ (16000 :> 27726) @@
    (27000 :> 32958) @@ (77000 :> 43438) @@ (80000 :> 43820) @@
    (102400 :> 46289) @@ (121000 :> 47958) @@ (1001000 :> 69088) @@
    (2903000 :> 79735) @@ (3675000 :> 82093) @@ (5001000 :> 85174) @@
    (5130000 :> 85429) @@ (407345000 :> 129174) @@ (500001000 :> 131224)

\* int64 values as eight base-256 limbs, least significant first
Limb(n, i) ==
    CASE i = 1 -> n % 256
      [] i = 2 -> (n \div 256) % 256
      [] i = 3 -> (n \div 65536) % 256
      [] i = 4 -> (n \div 16777216) % 256
      [] OTHER -> 0

\* the int64 of a number 0 <= n < 2^31
Int64(n) == [i \in 1..8 |-> Limb(n, i)]

RECURSIVE ColumnSum(_, _, _, _)
ColumnSum(a, b, k, i) ==
    IF i > k THEN 0 ELSE a[i] * b[k + 1 - i] + ColumnSum(a, b, k, i + 1)

RECURSIVE MulLimbs(_, _, _, _)
MulLimbs(a, b, k, carry) ==
    IF k > 8 THEN <<>>
    ELSE LET t == ColumnSum(a, b, k, 1) + carry
         IN  <<t % 256>> \o MulLimbs(a, b, k + 1, t \div 256)

\* a * b of two int64 values, wrapping modulo 2^64 as Go does
Mul64(a, b) == MulLimbs(a, b, 1, 0)

\* ------------------------------------------------------------------------
\* Additional parameters: "<value>:<weight>:<max_threshold>"
\* ------------------------------------------------------------------------

\* a string is the sequence of its characters
GoodParam == <<"2", ":", "1", ":", "3">>
ShortParam == <<"1", ":", "2">>
NonNumericParam == <<"1", ":", "x", ":", "2">>

ParamStrings == {GoodParam, ShortParam, NonNumericParam}

ParamLists == UNION {[1..n -> ParamStrings] : n \in 0..MaxParams}

\* strings.Split(s, sep)
RECURSIVE Split(_, _)
Split(s, sep) ==
    IF \A i \in 1..Len(s) : s[i] # sep
    THEN <<s>>
    ELSE LET i == CHOOSE k \in 1..Len(s) :
                      s[k] = sep /\ \A j \in 1..(k - 1) : s[j] # sep
         IN  <<SubSeq(s, 1, i - 1)>> \o Split(SubSeq(s, i + 1, Len(s)), sep)

DigitValue(c) ==
    CASE c = "0" -> 0 [] c = "1" -> 1 [] c = "2" -> 2 [] c = "3" -> 3
      [] c = "4" -> 4 [] c = "5" -> 5 [] c = "6" -> 6 [] c = "7" -> 7
      [] c = "8" -> 8 [] c = "9" -> 9

IsDigit(c) == c \in {"0", "1", "2", "3", "4", "5", "6", "7", "8", "9"}

RECURSIVE Decimal(_)
Decimal(seg) ==
    IF seg = <<>> THEN 0
    ELSE 10 * Decimal(SubSeq(seg, 1, Len(seg) - 1)) + DigitValue(seg[Len(seg)])

\* strconv.ParseFloat(seg, 64) on strings of digits and letters: a non-empty
\* run of digits parses, anything else is an error
ParseFloat(seg) ==
    IF Len(seg) > 0 /\ \A i \in 1..Len(seg) : IsDigit(seg[i])
    THEN [ok |-> TRUE, v |-> Float(Decimal(seg))]
    ELSE [ok |-> FALSE, v |-> 0]

\* the body of the loop of parseAdditionalParams for one string
parseOneParam(p) ==
    LET ps == Split(p, ":")
    IN  IF Len(ps) # 3
        THEN [ok |-> FALSE, param |-> <<>>]
        ELSE LET v == ParseFloat(ps[1])
                 w == ParseFloat(ps[2])
                 mt == ParseFloat(ps[3])
             IN  IF v.ok /\ w.ok /\ mt.ok
                 THEN [ok |-> TRUE,
                       param |-> [Value |-> v.v, Weight |-> w.v,
                                  MaxThreshold |-> mt.v]]
                 ELSE [ok |-> FALSE, param |-> <<>>]

\* parseAdditionalParams as it would be if only the first string were validated
parseAdditionalParamsFirstOnly(params) ==
    IF Len(params) > 0 /\ ~parseOneParam(params[1]).ok
    THEN [ok |-> FALSE, additionalParams |-> <<>>]
    ELSE [ok |-> TRUE,
          additionalParams |->
              LET good == SelectSeq(params, LAMBDA q : parseOneParam(q).ok)
              IN  [i \in 1..Len(good) |-> parseOneParam(good[i]).param]]

\* parseAdditionalParams: the first string that does not parse fails the list
parseAdditionalParams(params) ==
    IF \E i \in 1..Len(params) : ~parseOneParam(params[i]).ok
    THEN [ok |-> FALSE, additionalParams |-> <<>>]
    ELSE [ok |-> TRUE,
          additionalParams |-> [i \in 1..Len(params) |->
                                    parseOneParam(params[i]).param]]

\* ------------------------------------------------------------------------
\* Scoring
\* ------------------------------------------------------------------------

IntParam(v) == [kind |-> "int", v |-> v]
FloatParam(v) == [kind |-> "float64", v |-> v]

\* ParamScore as it would be with the denominator taken at maxValue alone
ParamScoreUnclamped(param, maxValue, weight) ==
    LET p == CASE param.kind = "float64" -> param.v
               [] param.kind = "int" -> Float(param.v)
               [] OTHER -> 0
    IN  (Log[1000 + p] * weight) \div Log[1000 + maxValue]

\* ParamScore: math.Log(1.0+p) / math.Log(1.0+math.Max(p, maxValue)) * weight
ParamScore(param, maxValue, weight) ==
    LET p == CASE param.kind = "float64" -> param.v
               [] param.kind = "int" -> Float(param.v)
               [] OTHER -> 0
        num == Log[1000 + p]
        den == Log[1000 + Max(p, maxValue)]
    IN  IF weight >= 0
        THEN (num * weight) \div den
        ELSE 0 - ((num * (0 - weight)) \div den)

\* the loop over additionalParams, lines 80-86: <<total weight, total score>>
RECURSIVE additionalParamsTotals(_)
additionalParamsTotals(aps) ==
    IF aps = <<>> THEN <<0, 0>>
    ELSE LET rest == additionalParamsTotals(Tail(aps))
             param == Head(aps)
         IN  <<rest[1] + param.Weight,
               rest[2] + ParamScore(FloatParam(param.Value),
                                    param.MaxThreshold, param.Weight)>>

\* CriticalityScore as it would be with the additional weights left out of
\* totalWeight
CriticalityScoreFixedWeights(score, aps) ==
    LET totalWeight == CreatedSinceWeight + UpdatedSinceWeight +
                       ContributorCountWeight + OrgCountWeight +
                       CommitFrequencyWeight + RecentReleasesWeight +
                       ClosedIssuesWeight + UpdatedIssuesWeight +
                       CommentFrequencyWeight + DependentsCountWeight
        sum == ParamScore(IntParam(score.CreatedSince), CreatedSinceThreshold, CreatedSinceWeight) +
               ParamScore(IntParam(score.UpdatedSince), UpdatedSinceThreshold, UpdatedSinceWeight) +
               ParamScore(IntParam(score.ContributorCount), ContributorCountThreshold, ContributorCountWeight) +
               ParamScore(IntParam(score.OrgCount), OrgCountThreshold, OrgCountWeight) +
               ParamScore(FloatParam(score.CommitFrequency), CommitFrequencyThreshold, CommitFrequencyWeight) +
               ParamScore(IntParam(score.RecentReleasesCount), RecentReleasesThreshold, RecentReleasesWeight) +
               ParamScore(IntParam(score.ClosedIssuesCount), ClosedIssuesThreshold, ClosedIssuesWeight) +
               ParamScore(IntParam(score.UpdatedIssuesCount), UpdatedIssuesThreshold, UpdatedIssuesWeight) +
               ParamScore(FloatParam(score.CommentFrequency), CommentFrequencyThreshold, CommentFrequencyWeight) +
               ParamScore(IntParam(score.DependentsCount), DependentsCountThreshold, DependentsCountWeight) +
               additionalParamsTotals(aps)[2]
    IN  RoundDiv(sum * 100000, totalWeight)

\* score.CriticalityScore as computed after the barrier, lines 149-166,
\* as the integer math.Round(x*100000)
CriticalityScore(score, aps) ==
    LET totalWeight == CreatedSinceWeight + UpdatedSinceWeight +
                       ContributorCountWeight + OrgCountWeight +
                       CommitFrequencyWeight + RecentReleasesWeight +
                       ClosedIssuesWeight + UpdatedIssuesWeight +
                       CommentFrequencyWeight + DependentsCountWeight +
                       additionalParamsTotals(aps)[1]
        sum == ParamScore(IntParam(score.CreatedSince), CreatedSinceThreshold, CreatedSinceWeight) +
               ParamScore(IntParam(score.UpdatedSince), UpdatedSinceThreshold, UpdatedSinceWeight) +
               ParamScore(IntParam(score.ContributorCount), ContributorCountThreshold, ContributorCountWeight) +
               ParamScore(IntParam(score.OrgCount), OrgCountThreshold, OrgCountWeight) +
               ParamScore(FloatParam(score.CommitFrequency), CommitFrequencyThreshold, CommitFrequencyWeight) +
               ParamScore(IntParam(score.RecentReleasesCount), RecentReleasesThreshold, RecentReleasesWeight) +
               ParamScore(IntParam(score.ClosedIssuesCount), ClosedIssuesThreshold, ClosedIssuesWeight) +
               ParamScore(IntParam(score.UpdatedIssuesCount), UpdatedIssuesThreshold, UpdatedIssuesWeight) +
               ParamScore(FloatParam(score.CommentFrequency), CommentFrequencyThreshold, CommentFrequencyWeight) +
               ParamScore(IntParam(score.DependentsCount), DependentsCountThreshold, DependentsCountWeight) +
               additionalParamsTotals(aps)[2]
    IN  RoundDiv(sum * 100000, totalWeight)

\* ------------------------------------------------------------------------
\* The remote side
\* ------------------------------------------------------------------------

\* what a run depends on besides the parameters: the remote calls of
\* LoadRepository and of the providers, and the caller of RepositoryStats;
\* for each, the answers other than the plain one
Deviations ==
    [RateLimits |-> {"err", "low", "lowLong"},
     Get |-> {"err"},
     Caller |-> {"storesError"},
     ListCommits |-> {"err", "empty"},
     ListContributors |-> {"err"},
     ListContributorsTop |-> {"err", "few"},
     ListCommitActivity |-> {"accepted", "errResponse", "errNoResponse"},
     ListReleases |-> {"err"},
     ListIssuesClosed |-> {"err"},
     ListIssuesAll |-> {"err", "none"},
     ListComments |-> {"err"},
     SearchPage |-> {"fail", "unreachable", "noMatch"}]

RemoteCalls == DOMAIN Deviations

AllOk == [c \in RemoteCalls |-> "ok"]

\* the remote behaviours with at most n deviating calls
RECURSIVE Deviating(_)
Deviating(n) ==
    IF n = 0 THEN {AllOk}
    ELSE LET less == Deviating(n - 1)
         IN  less \cup
             UNION {UNION {{[w EXCEPT ![c] = d] : d \in Deviations[c]} :
                              c \in {x \in RemoteCalls : w[x] = "ok"}} :
                       w \in less}

\* one run's remote behaviour: an answer per call, few of them deviating
Worlds == Deviating(MaxFailures)

\* what the repository looks like when the remote answers plainly
Repo ==
    [name |-> "kubernetes",
     monthsSinceCreation |-> 79,
     monthsSinceLastCommit |-> 3,
     contributors |-> 3674,
     namedContributors |-> 3000,
     commitsLastYear |-> 5273,
     recentReleases |-> 76,
     closedIssues |-> 2902,
     updatedIssues |-> 5129,
     comments |-> 29235,
     dependents |-> 407344]

\* the answer of client.RateLimits: remaining calls of the core quota and
\* whole seconds until it resets
RateLimits(w) ==
    CASE w.RateLimits = "low" -> [remaining |-> 49, waitSec |-> 1]
      [] w.RateLimits = "lowLong" -> [remaining |-> 49, waitSec |-> 10]
      [] OTHER -> [remaining |-> 50, waitSec |-> 1]

\* rateLimits.Core.Reset.Sub(time.Now()), an int64 of nanoseconds
WaitTime(r) == Mul64(Int64(r.waitSec), Int64(Second))

\* pauseIfGitHubRateLimitExceeded once client.RateLimits has answered:
\* whether time.Sleep is called, and with which argument
pauseIfGitHubRateLimitExceeded(r) ==
    IF r.remaining < RateLimitFloor
    THEN [called |-> TRUE, arg |-> Mul64(WaitTime(r), Int64(Second))]
    ELSE [called |-> FALSE, arg |-> Int64(0)]

\* ------------------------------------------------------------------------
\* Strings, as sequences of one-character strings
\* ------------------------------------------------------------------------

\* s has t at position i
HasAt(s, t, i) == i + Len(t) - 1 <= Len(s) /\ SubSeq(s, i, i + Len(t) - 1) = t

UpperCase ==
    <<"A", "B", "C", "D", "E", "F", "G", "H", "I", "J", "K", "L", "M",
      "N", "O", "P", "Q", "R", "S", "T", "U", "V", "W", "X", "Y", "Z">>

LowerCase ==
    <<"a", "b", "c", "d", "e", "f", "g", "h", "i", "j", "k", "l", "m",
      "n", "o", "p", "q", "r", "s", "t", "u", "v", "w", "x", "y", "z">>

\* strings.ToLower
ToLower(s) ==
    [i \in 1..Len(s) |->
        IF \E k \in 1..26 : UpperCase[k] = s[i]
        THEN LowerCase[CHOOSE k \in 1..26 : UpperCase[k] = s[i]]
        ELSE s[i]]

\* the old strings of strings.NewReplacer("inc.", "", "llc", "", "@", "", " ", "")
Removed == {<<"i", "n", "c", ".">>, <<"l", "l", "c">>, <<"@">>, <<" ">>}

\* replacer.Replace: left to right, every occurrence replaced by ""
RECURSIVE Replace(_)
Replace(s) ==
    IF s = <<>> THEN <<>>
    ELSE IF \E old \in Removed : HasAt(s, old, 1)
         THEN LET old == CHOOSE o \in Removed : HasAt(s, o, 1)
              IN  Replace(SubSeq(s, Len(old) + 1, Len(s)))
         ELSE <<Head(s)>> \o Replace(Tail(s))

\* strings.TrimRight(s, ",")
RECURSIVE TrimRight(_)
TrimRight(s) ==
    IF s # <<>> /\ s[Len(s)] = ","
    THEN TrimRight(SubSeq(s, 1, Len(s) - 1))
    ELSE s

filterOrgName(orgName) == TrimRight(Replace(ToLower(orgName)))

\* ------------------------------------------------------------------------
\* ContributorOrgs, lines 295-348
\* ------------------------------------------------------------------------

\* PerPage of the contributor listing
ContributorsPerPage == 25

\* above this many listed contributors no user is looked up
ContributorCap == 5000

\* the placeholder: keys string(0) .. string(9)
PlaceholderOrgs ==
    {<<"U+0000">>, <<"U+0001">>, <<"U+0002">>, <<"U+0003">>, <<"U+0004">>,
     <<"U+0005">>, <<"U+0006">>, <<"U+0007">>, <<"U+0008">>, <<"U+0009">>}

\* the company field of the users of the remote, in the order of rank
Companies ==
    <<<<"G", "o", "o", "g", "l", "e">>,
      <<"@", "g", "o", "o", "g", "l", "e">>,
      <<>>,
      <<"R", "e", "d", " ", "H", "a", "t", ",", " ", "I", "n", "c", ".">>,
      <<"A", "c", "m", "e", " ", "L", "L", "C">>,
      <<"I", "n", "c", ".">>,
      <<"I", "B", "M">>>>

\* user.GetCompany() of the contributor of rank i
Company(r, i) == Companies[((i - 1 + r.shift) % Len(Companies)) + 1]

\* size classes of the allocator, in bytes, as far as a page of pointers needs
SizeClasses == <<8, 16, 24, 32, 48, 64, 80, 96, 112, 128, 144, 160, 176, 192, 208>>

\* cap() of the slice that append(nil, page...) allocates for m pointers
CapAfterAppend(m) ==
    IF m = 0 THEN 0
    ELSE LET k == CHOOSE j \in 1..Len(SizeClasses) :
                      /\ SizeClasses[j] >= 8 * m
                      /\ \A h \in 1..(j - 1) : SizeClasses[h] < 8 * m
         IN  SizeClasses[k] \div 8

\* the listing loop, lines 304-319: how many contributors have been appended
\* when it ends, and how many pages were fetched.  r.n is the number of
\* non-anonymous contributors of the remote.
RECURSIVE ListLoop(_, _, _)
ListLoop(r, len, pages) ==
    LET got == IF r.n - len < ContributorsPerPage THEN r.n - len
               ELSE ContributorsPerPage
        all == len + got
        nextPage == IF all < r.n THEN pages + 2 ELSE 0
    IN  IF nextPage = 0 \/ all > TopContributorCount
        THEN [len |-> all, pages |-> pages + 1]
        ELSE ListLoop(r, all, pages + 1)

\* the part of ContributorOrgs after a listing without error: the map it
\* returns, whether it panics, the calls of Users.GetByID, the pages fetched
ContributorOrgsFrom(r) ==
    LET l == ListLoop(r, 0, 0)
        top == 1..TopContributorCount
        resolved == {i \in top : i \notin r.unresolved}
    IN  IF l.len > ContributorCap
        THEN [orgs |-> PlaceholderOrgs, panics |-> FALSE,
              userCalls |-> 0, pages |-> l.pages]
        ELSE IF TopContributorCount > CapAfterAppend(l.len)
             THEN [orgs |-> {}, panics |-> TRUE,
                   userCalls |-> 0, pages |-> l.pages]
             ELSE [orgs |-> {filterOrgName(Company(r, i)) :
                                i \in {j \in resolved : Company(r, j) # <<>>}},
                   panics |-> FALSE,
                   userCalls |-> TopContributorCount, pages |-> l.pages]

\* ------------------------------------------------------------------------
\* RecentReleases, lines 374-420
\* ------------------------------------------------------------------------

ReleaseLookbackDays == 365

\* time.Since(ghr.R.CreatedAt.Time) is a Duration: an int64 of nanoseconds.
\* The model holds it as whole hours or, below one hour, as nanoseconds
\* (never both), so that every quotient stays within the integers at hand.
RepoAge(hours, nanos) == [hours |-> hours, nanos |-> nanos]

\* nanoseconds of one hour, divided by 24: 150 * Second
HourOver24 == 150

\* line 402: int(time.Since(ghr.R.CreatedAt.Time) / 24.0) is zero
DaysSinceCreationIsZero(age) == age.hours = 0 /\ age.nanos \div 24 = 0

\* totalTags / daysSinceCreation of line 417, an integer division by
\* int(age / 24): for whole hours the divisor is hours * 150 * Second, and
\* a \div (b * c) = (a \div b) \div c
TagsPerDaySinceCreation(totalTags, age) ==
    IF age.hours > 0
    THEN (totalTags \div (age.hours * HourOver24)) \div Second
    ELSE totalTags \div (age.nanos \div 24)

\* lines 393-399: a release older than the window is skipped
InWindow(daysOld) == ~(daysOld > ReleaseLookbackDays)

\* RecentReleases once the releases are listed.  r.releases holds the age in
\* days of every release, r.age the age of the repository, r.tags the answer
\* of ListTags: whether it came, and the count that totalCount derives from it
RecentReleasesFrom(r) ==
    LET total == Len(SelectSeq(r.releases, InWindow))
    IN  IF total # 0 THEN [val |-> total, err |-> NoError, calls |-> 1]
        ELSE IF DaysSinceCreationIsZero(r.age)
             THEN [val |-> 0, err |-> NoError, calls |-> 1]
             ELSE IF ~r.tags.ok
                  THEN [val |-> 0, err |-> ErrClient, calls |-> 2]
                  ELSE [val |-> TagsPerDaySinceCreation(r.tags.count, r.age)
                                    * ReleaseLookbackDays,
                        err |-> NoError, calls |-> 2]

\* ------------------------------------------------------------------------
\* Dependents, lines 491-525
\* ------------------------------------------------------------------------

\* the attempts of the loop
DependentsAttempts == 3

\* what one http.Get of the search page can come to
FetchOutcomes == {"ok", "transportError", "readError", "status"}

\* the loop of lines 499-513 from attempt i on: the events in order ("get",
\* "sleep") and the content it leaves.  d.outcomes[i] is what attempt i
\* comes to, d.page the body of the page, d.partial what ioutil.ReadAll
\* hands back together with a read error
RECURSIVE FetchLoop(_, _, _, _)
FetchLoop(d, i, content, events) ==
    IF i > DependentsAttempts
    THEN [content |-> content, events |-> events]
    ELSE LET o == d.outcomes[i]
             got == Append(events, "get")
         IN  CASE o = "transportError" -> FetchLoop(d, i + 1, content, got)
               [] o = "readError" -> FetchLoop(d, i + 1, d.partial, got)
               [] o = "ok" -> [content |-> d.page, events |-> got]
               [] OTHER -> FetchLoop(d, i + 1, content, Append(got, "sleep"))

CommitResults == <<"c", "o", "m", "m", "i", "t", " ", "r", "e", "s", "u", "l", "t", "s">>

NewLine == "\n"

DigitOrComma(c) == IsDigit(c) \/ c = ","

\* the first position of the line that holds position q
RECURSIVE LineStart(_, _)
LineStart(s, q) ==
    IF q = 1 \/ s[q - 1] = NewLine THEN q ELSE LineStart(s, q - 1)

\* the last position of the run of digits and commas that starts at p
RECURSIVE RunEnd(_, _)
RunEnd(s, p) ==
    IF p < Len(s) /\ DigitOrComma(s[p + 1]) THEN RunEnd(s, p + 1) ELSE p

\* ".*commit results" matches from position p on
TailMatches(s, p) ==
    \E t \in p..Len(s) :
        /\ HasAt(s, CommitResults, t)
        /\ \A j \in p..(t - 1) : s[j] # NewLine

\* "[^0-9,]([0-9,]+).*commit results" matches with [^0-9,] at position q
MatchesAt(s, q) ==
    /\ q < Len(s)
    /\ ~DigitOrComma(s[q])
    /\ DigitOrComma(s[q + 1])
    /\ TailMatches(s, RunEnd(s, q + 1) + 1)

\* DependentsRegex.FindSubmatch(content): the leftmost match, the leading
\* ".*" as long as it can be, the group as long as it can be
FindSubmatch(s) ==
    LET qs == {q \in 1..Len(s) : MatchesAt(s, q)}
    IN  IF qs = {} THEN [found |-> FALSE, group |-> <<>>]
        ELSE LET start == CHOOSE p \in {LineStart(s, q) : q \in qs} :
                              \A q \in qs : p <= LineStart(s, q)
                 q == CHOOSE x \in qs :
                          /\ LineStart(s, x) = start
                          /\ \A y \in qs : LineStart(s, y) = start => y <= x
             IN  [found |-> TRUE, group |-> SubSeq(s, q + 1, RunEnd(s, q + 1))]

\* bytes.ReplaceAll(b, ",", "")
RemoveCommas(b) == SelectSeq(b, LAMBDA c : c # ",")

\* bytes.TrimSpace
RECURSIVE TrimSpace(_)
TrimSpace(b) ==
    IF b # <<>> /\ Head(b) \in {" ", NewLine} THEN TrimSpace(Tail(b))
    ELSE IF b # <<>> /\ b[Len(b)] \in {" ", NewLine}
         THEN TrimSpace(SubSeq(b, 1, Len(b) - 1))
         ELSE b

\* strconv.Atoi: an optional sign and a non-empty run of digits
Atoi(s) ==
    LET signed == s # <<>> /\ Head(s) \in {"+", "-"}
        digits == IF signed THEN Tail(s) ELSE s
    IN  IF digits # <<>> /\ \A i \in 1..Len(digits) : IsDigit(digits[i])
        THEN [ok |-> TRUE,
              v |-> IF signed /\ Head(s) = "-" THEN 0 - Decimal(digits)
                    ELSE Decimal(digits)]
        ELSE [ok |-> FALSE, v |-> 0]

\* lines 515-524: the count read off the content
DependentsCount(content) ==
    LET match == FindSubmatch(content)
    IN  IF ~match.found THEN 0 ELSE Atoi(TrimSpace(RemoveCommas(match.group))).v

\* the page of the README's example
ExamplePage == <<"x", " ", "4", "0", "7", ",", "3", "4", "4", " ", "c", "o", "m", "m", "i", "t", " ", "r", "e", "s", "u", "l", "t", "s">>

\* Dependents as it would be if a page that cannot be fetched were an error
DependentsFromStrict(d) ==
    LET l == FetchLoop(d, 1, <<>>, <<>>)
    IN  [val |-> DependentsCount(l.content),
         err |-> IF \E i \in 1..DependentsAttempts : d.outcomes[i] = "ok"
                 THEN NoError ELSE ErrClient,
         panics |-> FALSE, events |-> l.events,
         calls |-> Len(SelectSeq(l.events, LAMBDA e : e = "get"))]

\* Dependents: it stores no error and has no statement that can panic
DependentsFrom(d) ==
    LET l == FetchLoop(d, 1, <<>>, <<>>)
    IN  [val |-> DependentsCount(l.content), err |-> NoError,
         panics |-> FALSE, events |-> l.events,
         calls |-> Len(SelectSeq(l.events, LAMBDA e : e = "get"))]

\* ------------------------------------------------------------------------
\* totalCount and parseLinkHeader, lines 31-53 and 118-131
\* ------------------------------------------------------------------------

\* strings.Split(s, sep) for a separator of several characters
RECURSIVE SplitOn(_, _)
SplitOn(s, sep) ==
    IF \A i \in 1..Len(s) : ~HasAt(s, sep, i)
    THEN <<s>>
    ELSE LET i == CHOOSE k \in 1..Len(s) :
                      HasAt(s, sep, k) /\ \A j \in 1..(k - 1) : ~HasAt(s, sep, j)
         IN  <<SubSeq(s, 1, i - 1)>> \o SplitOn(SubSeq(s, i + Len(sep), Len(s)), sep)

\* substr(input, start, end), lines 155-166; positions count from 0
substr(input, start, end) ==
    IF start >= Len(input) THEN <<>>
    ELSE LET e1 == IF end > Len(input) THEN Len(input) - 1 ELSE end
             e2 == IF e1 <= 0 THEN Len(input) + e1 ELSE e1
         IN  SubSeq(input, start + 1, e2)

\* parseLinkHeader on header.Get("link"): the pairs <<rel, url>> in the order
\* they are stored into the map
RECURSIVE LinkPairs(_)
LinkPairs(linkHeaders) ==
    IF linkHeaders = <<>> THEN <<>>
    ELSE LET lh == SplitOn(Head(linkHeaders), <<";", " ">>)
             rest == LinkPairs(Tail(linkHeaders))
         IN  IF Len(lh) < 2 THEN rest
             ELSE <<<<substr(lh[2], 5, -1), substr(lh[1], 1, -1)>>>> \o rest

parseLinkHeader(header) == LinkPairs(SplitOn(header, <<",", " ">>))

\* links[key] of the map that parseLinkHeader built: the last pair stored
\* under the key wins
Lookup(pairs, key) ==
    LET at == {i \in 1..Len(pairs) : pairs[i][1] = key}
    IN  IF at = {} THEN [ok |-> FALSE, v |-> <<>>]
        ELSE [ok |-> TRUE,
              v |-> pairs[CHOOSE i \in at : \A j \in at : j <= i][2]]

\* the part of s before the first c, and the part after it
Before(s, c) ==
    IF \A i \in 1..Len(s) : s[i] # c THEN s
    ELSE SubSeq(s, 1, (CHOOSE k \in 1..Len(s) :
                          s[k] = c /\ \A j \in 1..(k - 1) : s[j] # c) - 1)

After(s, c) ==
    IF \A i \in 1..Len(s) : s[i] # c THEN <<>>
    ELSE SubSeq(s, (CHOOSE k \in 1..Len(s) :
                       s[k] = c /\ \A j \in 1..(k - 1) : s[j] # c) + 1, Len(s))

\* url.Parse as far as totalCount uses it: the fragment is cut off, a URL
\* that starts with a colon has no protocol scheme and is an error, and
\* RawQuery is what follows the first question mark
ParseURL(rawURL) ==
    LET u == Before(rawURL, "#")
    IN  IF u # <<>> /\ Head(u) = ":"
        THEN [ok |-> FALSE, RawQuery |-> <<>>]
        ELSE [ok |-> TRUE, RawQuery |-> After(u, "?")]

\* url.Values.Get as it would be if it took the first parameter of the query
QueryGetFirst(query, key) == After(Split(query, "&")[1], "=")

\* url.ParseQuery(query).Get(key): the value of the first key=value pair with
\* that key, "" without one
QueryGet(query, key) ==
    LET kvs == Split(query, "&")
        at == {i \in 1..Len(kvs) : Before(kvs[i], "=") = key}
    IN  IF at = {} THEN <<>>
        ELSE After(kvs[CHOOSE i \in at : \A j \in at : i <= j], "=")

Page == <<"p", "a", "g", "e">>

Last == <<"l", "a", "s", "t">>

\* totalCount of a response whose Link header is header ("" without one)
totalCount(header) ==
    LET lastURL == Lookup(parseLinkHeader(header), Last)
    IN  IF ~lastURL.ok THEN 0
        ELSE LET u == ParseURL(lastURL.v)
             IN  IF ~u.ok THEN 0
                 ELSE LET pageCount == Atoi(QueryGet(u.RawQuery, Page))
                      IN  IF ~pageCount.ok THEN 0 ELSE pageCount.v

\* ------------------------------------------------------------------------
\* The providers: value returned, error stored in the receiver's own copy
\* of the GitHubRepository, whether the call panics, network calls made
\* ------------------------------------------------------------------------

Returns(val, calls) == [val |-> val, err |-> NoError, panics |-> FALSE, calls |-> calls]
Fails(err, calls) == [val |-> 0, err |-> err, panics |-> FALSE, calls |-> calls]
Panics(calls) == [val |-> 0, err |-> NoError, panics |-> TRUE, calls |-> calls]

CreatedSince(w) == Returns(Repo.monthsSinceCreation, 0)

\* commits[0] is read whenever err is nil
UpdatedSince(w) ==
    CASE w.ListCommits = "err" -> Fails(ErrClient, 1)
      [] w.ListCommits = "empty" -> Panics(1)
      [] OTHER -> Returns(Repo.monthsSinceLastCommit, 1)

Contributors(w) ==
    IF w.ListContributors = "err" THEN Fails(ErrClient, 1)
    ELSE Returns(Repo.contributors, 1)

\* ContributorOrgs on the repository of the example
RepoContributorOrgs ==
    ContributorOrgsFrom([n |-> Repo.namedContributors, shift |-> 0,
                         unresolved |-> {}])

\* ContributorOrgs on a repository with three contributors
FewContributorOrgs ==
    ContributorOrgsFrom([n |-> 3, shift |-> 0, unresolved |-> {}])

\* len(ghr.ContributorOrgs()); allContributors[:TopContributorCount] is out
\* of range when fewer contributors than that were listed
ContributorOrgs(w) ==
    CASE w.ListContributorsTop = "err" -> Fails(ErrClient, 1)
      [] OTHER ->
            LET r == IF w.ListContributorsTop = "few" THEN FewContributorOrgs
                     ELSE RepoContributorOrgs
            IN  IF r.panics THEN Panics(r.pages)
                ELSE Returns(Cardinality(r.orgs), r.pages + r.userCalls)

\* resp.StatusCode is read whenever err is not nil
CommitFrequency(w) ==
    CASE w.ListCommitActivity = "accepted" ->
             Fails(ErrCommitFrequencyBeingCalculated, 1)
      [] w.ListCommitActivity = "errResponse" -> Fails(ErrClient, 1)
      [] w.ListCommitActivity = "errNoResponse" -> Panics(1)
      [] OTHER -> Returns(RoundDiv(Repo.commitsLastYear * 10, 52) * 100, 1)

\* RecentReleases on the repository of the example: every release is 30
\* days old
RepoRecentReleases ==
    RecentReleasesFrom([releases |-> [i \in 1..Repo.recentReleases |-> 30],
                        age |-> RepoAge(Repo.monthsSinceCreation * 30 * 24, 0),
                        tags |-> [ok |-> TRUE, count |-> 0]])

RecentReleases(w) ==
    IF w.ListReleases = "err" THEN Fails(ErrClient, 1)
    ELSE Returns(RepoRecentReleases.val, RepoRecentReleases.calls)

ClosedIssues(w) ==
    IF w.ListIssuesClosed = "err" THEN Fails(ErrClient, 1)
    ELSE Returns(Repo.closedIssues, 1)

UpdatedIssues(w) ==
    CASE w.ListIssuesAll = "err" -> Fails(ErrClient, 1)
      [] w.ListIssuesAll = "none" -> Returns(0, 1)
      [] OTHER -> Returns(Repo.updatedIssues, 1)

CommentFrequency(w, issueCount) ==
    CASE issueCount = 0 -> Returns(0, 0)
      [] w.ListComments = "err" -> Fails(ErrClient, 1)
      [] OTHER -> Returns(RoundDiv(Repo.comments * 10, issueCount) * 100, 1)

\* how the search page is fetched, by the answer of the remote
Scrapes ==
    [ok |-> [outcomes |-> <<"ok", "ok", "ok">>, page |-> ExamplePage,
             partial |-> <<>>],
     fail |-> [outcomes |-> <<"status", "status", "status">>,
               page |-> ExamplePage, partial |-> <<>>],
     unreachable |-> [outcomes |-> <<"transportError", "transportError",
                                     "transportError">>,
                      page |-> ExamplePage, partial |-> <<>>],
     noMatch |-> [outcomes |-> <<"status", "ok", "ok">>,
                  page |-> <<"x">> \o CommitResults, partial |-> <<>>]]

\* Dependents on each of them
Scraped == [k \in DOMAIN Scrapes |-> DependentsFrom(Scrapes[k])]

Dependents(w) ==
    LET r == Scraped[w.SearchPage]
    IN  [val |-> r.val, err |-> r.err, panics |-> r.panics, calls |-> r.calls]

Providers ==
    {"CreatedSince", "UpdatedSince", "Contributors", "ContributorOrgs",
     "CommitFrequency", "RecentReleases", "ClosedIssues", "UpdatedIssues",
     "CommentFrequency", "Dependents"}

MetricFields ==
    {"CreatedSince", "UpdatedSince", "ContributorCount", "OrgCount",
     "CommitFrequency", "RecentReleasesCount", "ClosedIssuesCount",
     "UpdatedIssuesCount", "CommentFrequency", "DependentsCount"}

\* Score{}
ZeroScore ==
    [Name |-> "", CreatedSince |-> 0, UpdatedSince |-> 0,
     ContributorCount |-> 0, OrgCount |-> 0, CommitFrequency |-> 0,
     RecentReleasesCount |-> 0, ClosedIssuesCount |-> 0,
     UpdatedIssuesCount |-> 0, CommentFrequency |-> 0,
     DependentsCount |-> 0, CriticalityScore |-> 0]

\* ------------------------------------------------------------------------
\* State
\* ------------------------------------------------------------------------

VARIABLES
    pc,                \* where main is
    crashedBy,         \* "none", or the function whose panic ended the process
    world,             \* how the remote answers during this run
    quotaChecks,       \* calls of pauseIfGitHubRateLimitExceeded so far
    sleep,             \* the time.Sleep of the quota check
    netCalls,          \* network calls made by the process so far
    statsNetCalls,     \* network calls made since RepositoryStats was entered
    params,            \* the params argument of RepositoryStats
    additionalParams,  \* the parsed additional parameters
    ghrError,          \* ghr.Error of the GitHubRepository RepositoryStats holds
    launched,          \* how many of the go statements have been executed
    unit,              \* per goroutine: "ready", "mid" or "done"
    wgCounter,         \* the WaitGroup counter
    score,             \* the local variable score of RepositoryStats
    writes,            \* per metric field: the goroutines that assigned it, in order
    copyError,         \* per provider: the Error it left in its own receiver copy
    ret,               \* what RepositoryStats returned
    psIn,              \* the arguments of a stand-alone ParamScore call
    psOut,             \* its result
    call,              \* a stand-alone call of a provider or of totalCount
    result,            \* what it came to
    commentCall        \* the call of CommentFrequency by the eighth goroutine

vars ==
    <<pc, crashedBy, world, quotaChecks, sleep, netCalls, statsNetCalls,
      params, additionalParams, ghrError, launched, unit, wgCounter, score,
      writes, copyError, ret, psIn, psOut, call, result, commentCall>>

Units == 1..NumUnits

NoSleep == [called |-> FALSE, arg |-> Int64(0)]
NoReturn == [returned |-> FALSE, score |-> ZeroScore, err |-> NoError]
NoParamScore == [p |-> 0, maxValue |-> 0, weight |-> 0]
NoCall == [fn |-> "none"]
NoCommentCall == [started |-> FALSE, issueCount |-> 0, readBy |-> {}]

InitCommon ==
    /\ crashedBy = "none"
    /\ quotaChecks = 0
    /\ sleep = NoSleep
    /\ netCalls = 0
    /\ statsNetCalls = 0
    /\ params = <<>>
    /\ additionalParams = <<>>
    /\ ghrError = NoError
    /\ launched = 0
    /\ unit = [u \in Units |-> "ready"]
    /\ wgCounter = 0
    /\ score = ZeroScore
    /\ writes = [f \in MetricFields |-> <<>>]
    /\ copyError = [p \in Providers |-> NoError]
    /\ ret = NoReturn
    /\ psOut = -1
    /\ result = NoCall
    /\ commentCall = NoCommentCall

Init ==
    /\ InitCommon
    /\ pc = "start"
    /\ world \in Worlds
    /\ psIn = NoParamScore
    /\ call = NoCall

\* ------------------------------------------------------------------------
\* main: LoadRepository
\* ------------------------------------------------------------------------

StatsVars ==
    <<params, additionalParams, ghrError, launched, unit, wgCounter, score,
      writes, copyError, ret, statsNetCalls>>

\* client.RateLimits fails: pauseIfGitHubRateLimitExceeded panics
LoadRepositoryPanic ==
    /\ pc = "start" /\ crashedBy = "none"
    /\ world.RateLimits = "err"
    /\ quotaChecks' = quotaChecks + 1
    /\ netCalls' = netCalls + 1
    /\ crashedBy' = "pauseIfGitHubRateLimitExceeded"
    /\ UNCHANGED <<pc, world, sleep, psIn, psOut, call, result, commentCall>>
    /\ UNCHANGED StatsVars

\* LoadRepository as it would be without its call of the quota check
QuotaCheckSkipped ==
    /\ world.RateLimits # "err"
    /\ UNCHANGED <<quotaChecks, sleep>>

\* line 233: the quota check that does not panic
QuotaCheck ==
    /\ world.RateLimits # "err"
    /\ quotaChecks' = quotaChecks + 1
    /\ sleep' = pauseIfGitHubRateLimitExceeded(RateLimits(world))

\* the quota check, then parseRepoURL gives no owner or no name
LoadRepositoryInvalidURL ==
    /\ pc = "start" /\ crashedBy = "none"
    /\ QuotaCheck
    /\ netCalls' = netCalls + 1
    /\ ret' = [returned |-> FALSE, score |-> ZeroScore, err |-> ErrInvalidGitHubURL]
    /\ pc' = "exit"
    /\ UNCHANGED <<crashedBy, world, psIn, psOut, call, result, commentCall>>
    /\ UNCHANGED <<params, additionalParams, ghrError, launched, unit,
                   wgCounter, score, writes, copyError, statsNetCalls>>

\* the quota check, then client.Repositories.Get fails
LoadRepositoryNotFound ==
    /\ pc = "start" /\ crashedBy = "none"
    /\ QuotaCheck
    /\ world.Get = "err"
    /\ netCalls' = netCalls + 2
    /\ ret' = [returned |-> FALSE, score |-> ZeroScore, err |-> ErrRepoNotFound]
    /\ pc' = "exit"
    /\ UNCHANGED <<crashedBy, world, psIn, psOut, call, result, commentCall>>
    /\ UNCHANGED <<params, additionalParams, ghrError, launched, unit,
                   wgCounter, score, writes, copyError, statsNetCalls>>

\* the quota check, then the repository is fetched; Error is left nil
LoadRepository ==
    /\ pc = "start" /\ crashedBy = "none"
    /\ QuotaCheck
    /\ world.Get = "ok"
    /\ netCalls' = netCalls + 2
    /\ ghrError' = NoError
    /\ pc' = "loaded"
    /\ UNCHANGED <<crashedBy, world, psIn, psOut, call, result, commentCall>>
    /\ UNCHANGED <<params, additionalParams, launched, unit, wgCounter,
                   score, writes, copyError, ret, statsNetCalls>>

\* ------------------------------------------------------------------------
\* RepositoryStats
\* ------------------------------------------------------------------------

\* ghr.Error of the argument: nil as LoadRepository left it, unless the
\* caller stored an error in the exported field before the call
EntryError(w) == IF w.Caller = "storesError" THEN ErrCaller ELSE NoError

LoadVars == <<world, quotaChecks, sleep>>

\* lines 75-78: the parameters do not parse
RepositoryStatsInvalidParams ==
    /\ pc = "loaded" /\ crashedBy = "none"
    /\ \E ps \in ParamLists :
          /\ ~parseAdditionalParams(ps).ok
          /\ params' = ps
    /\ ghrError' = EntryError(world)
    /\ ret' = [returned |-> TRUE, score |-> ZeroScore, err |-> ErrInvalidParamFormat]
    /\ pc' = "returned"
    /\ UNCHANGED <<crashedBy, netCalls, statsNetCalls, additionalParams,
                   launched, unit, wgCounter, score, writes, copyError,
                   psIn, psOut, call, result, commentCall>>
    /\ UNCHANGED LoadVars

\* lines 75-95: the parameters parse, score is built, wg.Add(9).  The
\* GitHubRepository arrives by value; its exported field Error is nil when it
\* comes straight from LoadRepository and is whatever a caller stored otherwise.
RepositoryStatsBegin ==
    /\ pc = "loaded" /\ crashedBy = "none"
    /\ \E ps \in ParamLists :
          /\ parseAdditionalParams(ps).ok
          /\ params' = ps
          /\ additionalParams' = parseAdditionalParams(ps).additionalParams
    /\ ghrError' = EntryError(world)
    /\ score' = [ZeroScore EXCEPT !.Name = Repo.name]
    /\ wgCounter' = NumUnits
    /\ pc' = "launch"
    /\ UNCHANGED <<crashedBy, netCalls, statsNetCalls, launched, unit,
                   writes, copyError, ret, psIn, psOut, call, result, commentCall>>
    /\ UNCHANGED LoadVars

\* one go statement of lines 97-141; after the ninth, main is at wg.Wait()
Launch ==
    /\ pc = "launch" /\ crashedBy = "none"
    /\ launched < NumUnits
    /\ launched' = launched + 1
    /\ pc' = IF launched + 1 = NumUnits THEN "wait" ELSE "launch"
    /\ UNCHANGED <<crashedBy, netCalls, statsNetCalls, params,
                   additionalParams, ghrError, unit, wgCounter, score,
                   writes, copyError, ret, psIn, psOut, call, result, commentCall>>
    /\ UNCHANGED LoadVars

\* goroutine u is running and has still to do the step that starts in `from`
Runnable(u, from) ==
    /\ pc \in {"launch", "wait"} /\ crashedBy = "none"
    /\ u <= launched
    /\ unit[u] = from

\* a panic in a goroutine ends the process
Crash(provider, res) ==
    /\ crashedBy' = provider
    /\ netCalls' = netCalls + res.calls
    /\ statsNetCalls' = statsNetCalls + res.calls
    /\ UNCHANGED <<pc, params, additionalParams, ghrError, launched, unit,
                   wgCounter, score, writes, copyError, ret, psIn, psOut, call, result, commentCall>>
    /\ UNCHANGED LoadVars

\* Assign as it would be if the providers had pointer receivers: a failure
\* is stored in the GitHubRepository that RepositoryStats holds
AssignPointerReceiver(u, provider, field, res) ==
    /\ score' = [score EXCEPT ![field] = res.val]
    /\ writes' = [writes EXCEPT ![field] = Append(@, u)]
    /\ copyError' = [copyError EXCEPT ![provider] = res.err]
    /\ ghrError' = IF res.err # NoError THEN res.err ELSE ghrError
    /\ netCalls' = netCalls + res.calls
    /\ statsNetCalls' = statsNetCalls + res.calls
    /\ UNCHANGED <<pc, crashedBy, params, additionalParams,
                   launched, ret, psIn, psOut, call, result>>
    /\ UNCHANGED LoadVars

\* score.<field> = ghr.<provider>(): the provider ran on a copy of ghr and
\* its result is assigned by goroutine u
Assign(u, provider, field, res) ==
    /\ score' = [score EXCEPT ![field] = res.val]
    /\ writes' = [writes EXCEPT ![field] = Append(@, u)]
    /\ copyError' = [copyError EXCEPT ![provider] = res.err]
    /\ netCalls' = netCalls + res.calls
    /\ statsNetCalls' = statsNetCalls + res.calls
    /\ UNCHANGED <<pc, crashedBy, params, additionalParams, ghrError,
                   launched, ret, psIn, psOut, call, result>>
    /\ UNCHANGED LoadVars

\* wg.Done()
Done(u) ==
    /\ unit' = [unit EXCEPT ![u] = "done"]
    /\ wgCounter' = wgCounter - 1

\* a goroutine that calls one provider, assigns one field and calls wg.Done()
Goroutine(u, provider, field, res) ==
    /\ Runnable(u, "ready")
    /\ IF res.panics
       THEN Crash(provider, res)
       ELSE Assign(u, provider, field, res) /\ Done(u)
            /\ UNCHANGED commentCall

UnitCreatedSince == Goroutine(1, "CreatedSince", "CreatedSince", CreatedSince(world))

UnitUpdatedSince == Goroutine(2, "UpdatedSince", "UpdatedSince", UpdatedSince(world))

UnitContributors == Goroutine(3, "Contributors", "ContributorCount", Contributors(world))

UnitContributorOrgs == Goroutine(4, "ContributorOrgs", "OrgCount", ContributorOrgs(world))

UnitCommitFrequency == Goroutine(5, "CommitFrequency", "CommitFrequency", CommitFrequency(world))

UnitRecentReleases == Goroutine(6, "RecentReleases", "RecentReleasesCount", RecentReleases(world))

\* the seventh goroutine as it would be if it assigned the eighth's field
UnitClosedIssuesWrongField ==
    Goroutine(7, "ClosedIssues", "UpdatedIssuesCount", ClosedIssues(world))

UnitClosedIssues == Goroutine(7, "ClosedIssues", "ClosedIssuesCount", ClosedIssues(world))

\* line 133, the first statement of the eighth goroutine
UnitUpdatedIssues ==
    /\ Runnable(8, "ready")
    /\ Assign(8, "UpdatedIssues", "UpdatedIssuesCount", UpdatedIssues(world))
    /\ unit' = [unit EXCEPT ![8] = "mid"]
    /\ UNCHANGED <<wgCounter, commentCall>>

\* the eighth goroutine as it would be if CommentFrequency were given the
\* count of the README's example instead of the field
UnitCommentFrequencyFixedCount ==
    /\ Runnable(8, "mid")
    /\ commentCall' = [started |-> TRUE, issueCount |-> Repo.updatedIssues,
                       readBy |-> commentCall.readBy]
    /\ Assign(8, "CommentFrequency", "CommentFrequency",
              CommentFrequency(world, Repo.updatedIssues))
    /\ Done(8)

\* lines 134-135, the rest of it: score.UpdatedIssuesCount is read and
\* passed to CommentFrequency
UnitCommentFrequency ==
    /\ Runnable(8, "mid")
    /\ commentCall' = [started |-> TRUE, issueCount |-> score.UpdatedIssuesCount,
                       readBy |-> commentCall.readBy \cup {8}]
    /\ Assign(8, "CommentFrequency", "CommentFrequency",
              CommentFrequency(world, score.UpdatedIssuesCount))
    /\ Done(8)

UnitDependents == Goroutine(9, "Dependents", "DependentsCount", Dependents(world))

\* wg.Wait() as it would return had wg.Add been given one unit too few
WaitReturnsEarly == wgCounter <= 1

\* wg.Wait() returns
WaitReturns == wgCounter = 0

\* the error return as it would be if it handed back the metrics gathered
RepositoryStatsReturnPartial ==
    /\ pc = "wait" /\ crashedBy = "none"
    /\ WaitReturns
    /\ ghrError # NoError
    /\ ret' = [returned |-> TRUE, score |-> score, err |-> ghrError]
    /\ pc' = "returned"
    /\ UNCHANGED <<crashedBy, netCalls, statsNetCalls, params,
                   additionalParams, ghrError, launched, unit, wgCounter,
                   score, writes, copyError, psIn, psOut, call, result, commentCall>>
    /\ UNCHANGED LoadVars

\* lines 143-147: past the barrier, ghr.Error is set
RepositoryStatsReturnError ==
    /\ pc = "wait" /\ crashedBy = "none"
    /\ WaitReturns
    /\ ghrError # NoError
    /\ ret' = [returned |-> TRUE, score |-> ZeroScore, err |-> ghrError]
    /\ pc' = "returned"
    /\ UNCHANGED <<crashedBy, netCalls, statsNetCalls, params,
                   additionalParams, ghrError, launched, unit, wgCounter,
                   score, writes, copyError, psIn, psOut, call, result, commentCall>>
    /\ UNCHANGED LoadVars

\* lines 143-170: past the barrier, the score is computed and returned
RepositoryStatsReturnScore ==
    /\ pc = "wait" /\ crashedBy = "none"
    /\ WaitReturns
    /\ ghrError = NoError
    /\ score' = [score EXCEPT
                    !.CriticalityScore = CriticalityScore(score, additionalParams)]
    /\ ret' = [returned |-> TRUE, score |-> score', err |-> NoError]
    /\ pc' = "returned"
    /\ UNCHANGED <<crashedBy, netCalls, statsNetCalls, params,
                   additionalParams, ghrError, launched, unit, wgCounter,
                   writes, copyError, psIn, psOut, call, result, commentCall>>
    /\ UNCHANGED LoadVars

Next ==
    \/ LoadRepositoryPanic
    \/ LoadRepositoryInvalidURL
    \/ LoadRepositoryNotFound
    \/ LoadRepository
    \/ RepositoryStatsInvalidParams
    \/ RepositoryStatsBegin
    \/ Launch
    \/ UnitCreatedSince
    \/ UnitUpdatedSince
    \/ UnitContributors
    \/ UnitContributorOrgs
    \/ UnitCommitFrequency
    \/ UnitRecentReleases
    \/ UnitClosedIssues
    \/ UnitUpdatedIssues
    \/ UnitCommentFrequency
    \/ UnitDependents
    \/ RepositoryStatsReturnError
    \/ RepositoryStatsReturnScore

Spec == Init /\ [][Next]_vars

\* ------------------------------------------------------------------------
\* ParamScore on its own
\* ------------------------------------------------------------------------

ParamScoreInputs ==
    {[p |-> FloatParam(100 * i), maxValue |-> 100 * m, weight |-> w] :
        i \in 0..MaxTenths, m \in 1..MaxTenths, w \in {500, 1000, 2000}}
    \cup
    {[p |-> IntParam(i), maxValue |-> 100 * m, weight |-> w] :
        i \in 0..(MaxTenths \div 4), m \in 1..MaxTenths, w \in {500, 1000, 2000}}

InitParam ==
    /\ InitCommon
    /\ pc = "param"
    /\ world = AllOk
    /\ psIn \in ParamScoreInputs
    /\ call = NoCall

ParamScoreCall ==
    /\ pc = "param"
    /\ psOut' = ParamScore(psIn.p, psIn.maxValue, psIn.weight)
    /\ pc' = "paramDone"
    /\ UNCHANGED <<crashedBy, netCalls, psIn, call, result, commentCall>>
    /\ UNCHANGED StatsVars
    /\ UNCHANGED LoadVars

NextParam == ParamScoreCall

SpecParam == InitParam /\ [][NextParam]_vars

\* ------------------------------------------------------------------------
\* The providers and totalCount on their own
\* ------------------------------------------------------------------------

\* how many non-anonymous contributors the remote lists
ContributorCounts == {0, 3, 14, 15, 16, 25, 26, 5001}

ContributorOrgsInputs ==
    {[fn |-> "ContributorOrgs", n |-> n, shift |-> s, unresolved |-> u] :
        n \in ContributorCounts, s \in 0..MaxShift,
        u \in SUBSET (1..MaxUnresolved)}

ReleaseLists == {<<>>, <<10>>, <<365>>, <<366>>, <<10, 400>>, <<400, 800>>}

RepoAges ==
    {RepoAge(17520, 0), RepoAge(24, 0), RepoAge(1, 0),
     RepoAge(0, 0), RepoAge(0, 23), RepoAge(0, 48)}

TagAnswers ==
    {[ok |-> FALSE, count |-> 0]} \cup
    {[ok |-> TRUE, count |-> 10 * t] : t \in 0..MaxTagTens} \cup
    {[ok |-> TRUE, count |-> 730]}

RecentReleasesInputs ==
    {[fn |-> "RecentReleases", releases |-> rl, age |-> a, tags |-> t] :
        rl \in ReleaseLists, a \in RepoAges, t \in TagAnswers}

\* pieces of a search page
Chunks ==
    {<<"4">>, <<"1">>, <<",">>, <<"x">>, <<NewLine>>, <<" ">> \o CommitResults}

RECURSIVE Pages(_)
Pages(n) ==
    IF n = 0 THEN {<<>>}
    ELSE LET shorter == Pages(n - 1)
         IN  shorter \cup {p \o c : p \in shorter, c \in Chunks}

DependentsInputs ==
    {[fn |-> "Dependents", outcomes |-> o, page |-> p,
      partial |-> SubSeq(p, 1, Len(p) - 1)] :
        o \in [1..DependentsAttempts -> FetchOutcomes],
        p \in Pages(MaxChunks) \cup {ExamplePage}}

\* the URL of a link, by what its query says about the page
LinkURL(page) ==
    CASE page = "none" -> <<"h", ":", "/", "/", "a", "/", "b">>
      [] page = "noScheme" -> <<":", "a", "?", "p", "a", "g", "e", "=", "4", "2">>
      [] page = "x" -> <<"h", ":", "/", "/", "a", "/", "b", "?", "p", "a", "g", "e", "=", "x">>
      [] page = "7" -> <<"h", ":", "/", "/", "a", "/", "b", "?", "p", "e", "r", "_", "p", "a", "g", "e", "=", "1", "&", "p", "a", "g", "e", "=", "7">>
      [] OTHER -> <<"h", ":", "/", "/", "a", "/", "b", "?", "p", "a", "g", "e", "=", "4", "2", "&", "p", "e", "r", "_", "p", "a", "g", "e", "=", "1">>

PageKinds == {"none", "noScheme", "x", "7", "42"}

Rels == {<<"l", "a", "s", "t">>, <<"n", "e", "x", "t">>, <<"p", "r", "e", "v">>}

\* one link of a Link header as GitHub writes it: <url>; rel="name"
FormatLink(l) ==
    <<"<">> \o LinkURL(l.page) \o <<">", ";", " ", "r", "e", "l", "=", "\"">> \o l.rel \o <<"\"">>

\* the links of a header joined by ", "
RECURSIVE FormatHeader(_)
FormatHeader(links) ==
    IF links = <<>> THEN <<>>
    ELSE IF Len(links) = 1 THEN FormatLink(links[1])
         ELSE FormatLink(links[1]) \o <<",", " ">> \o FormatHeader(Tail(links))

\* lists of links with different rel names, none for a response without header
LinkLists ==
    UNION {{ls \in [1..n -> [rel : Rels, page : PageKinds]] :
               \A i, j \in 1..n : i # j => ls[i].rel # ls[j].rel} :
           n \in 0..MaxLinks}

TotalCountInputs == {[fn |-> "totalCount", links |-> ls] : ls \in LinkLists}

InitProviders ==
    /\ InitCommon
    /\ pc = "provider"
    /\ world = AllOk
    /\ psIn = NoParamScore
    /\ call \in ContributorOrgsInputs \cup RecentReleasesInputs
                  \cup DependentsInputs \cup TotalCountInputs

ProviderCall(fn, res) ==
    /\ pc = "provider"
    /\ call.fn = fn
    /\ result' = res
    /\ pc' = "providerDone"
    /\ UNCHANGED <<crashedBy, netCalls, psIn, psOut, call, commentCall>>
    /\ UNCHANGED StatsVars
    /\ UNCHANGED LoadVars

ContributorOrgsCall == ProviderCall("ContributorOrgs", ContributorOrgsFrom(call))

RecentReleasesCall == ProviderCall("RecentReleases", RecentReleasesFrom(call))

DependentsCall == ProviderCall("Dependents", DependentsFrom(call))

totalCountCall == ProviderCall("totalCount", totalCount(FormatHeader(call.links)))

NextProviders ==
    \/ ContributorOrgsCall
    \/ RecentReleasesCall
    \/ DependentsCall
    \/ totalCountCall

SpecProviders == InitProviders /\ [][NextProviders]_vars

\* ------------------------------------------------------------------------
\* Properties
\* ------------------------------------------------------------------------

\* RepositoryStats got past parameter parsing and has returned
ReturnedPastParsing == ret.returned /\ ret.err # ErrInvalidParamFormat

\* the providers that stored an error during the run
FailedProviders == {p \in Providers : copyError[p] # NoError}

AllUnitsDone == \A u \in Units : unit[u] = "done"

\* C1: when the parameters parse and at least one provider failed during the
\* run, RepositoryStats returns, after the barrier, a failure that one of the
\* providers recorded (ErrCommitFrequencyBeingCalculated when that is the
\* only one) together with no score.
C1_ProviderFailureReturned ==
    (ReturnedPastParsing /\ FailedProviders # {}) =>
        /\ ret.err \in {copyError[p] : p \in FailedProviders}
        /\ ret.score = ZeroScore

\* C2: once past parameter parsing, RepositoryStats has returned only if all
\* nine go statements were executed and every goroutine ran to its wg.Done(),
\* whether or not a provider failed; and the criticality score has been
\* computed from the metric fields only in such a state.
C2_ReturnsAfterAllUnits ==
    (ReturnedPastParsing \/ score.CriticalityScore # 0) =>
        /\ launched = NumUnits
        /\ AllUnitsDone
        /\ wgCounter = 0

\* a run has returned a score although a provider failed, all units done
C2_Witness ==
    /\ ReturnedPastParsing
    /\ FailedProviders # {}
    /\ AllUnitsDone

\* C3: at every moment of every run each of the ten metric fields has been
\* assigned at most once, hence by at most one goroutine, and when
\* RepositoryStats returns past the barrier each has been assigned exactly once.
C3_EachFieldWrittenOnce ==
    \A f \in MetricFields :
        /\ Len(writes[f]) <= 1
        /\ Cardinality({writes[f][i] : i \in 1..Len(writes[f])}) <= 1
        /\ ReturnedPastParsing => Len(writes[f]) = 1

\* the barrier has been passed with every field assigned, the two fields of
\* the eighth goroutine by that same goroutine
C3_Witness ==
    /\ ReturnedPastParsing
    /\ writes["UpdatedIssuesCount"] = <<8>>
    /\ writes["CommentFrequency"] = <<8>>
    /\ \A f \in MetricFields : Len(writes[f]) = 1

\* C4: whenever RepositoryStats has returned a non-nil error, the Score
\* returned with it is the zero record.
C4_ErrorMeansZeroScore ==
    (ret.returned /\ ret.err # NoError) => ret.score = ZeroScore

\* an error was returned past the barrier while metrics had been computed
C4_Witness ==
    /\ ReturnedPastParsing
    /\ ret.err # NoError
    /\ score.ContributorCount > 0
    /\ score.DependentsCount > 0

\* a parameter string that is not three ':'-separated runs of digits
Malformed(p) ==
    \/ Cardinality({i \in 1..Len(p) : p[i] = ":"}) # 2
    \/ \E i \in 1..Len(p) : p[i] # ":" /\ ~IsDigit(p[i])
    \/ Len(p) = 0
    \/ p[1] = ":"
    \/ p[Len(p)] = ":"
    \/ \E i \in 1..(Len(p) - 1) : p[i] = ":" /\ p[i + 1] = ":"

SomeMalformed == \E i \in 1..Len(params) : Malformed(params[i])

\* C5 as stated: a request whose parameter list holds a malformed string has
\* failed with the invalid-parameter error while no network call at all has
\* been made and no go statement has been executed.
C5_NoNetworkCallAtAll ==
    SomeMalformed =>
        /\ ret.returned /\ ret.err = ErrInvalidParamFormat
        /\ netCalls = 0
        /\ launched = 0

\* C5, amended: a request whose parameter list holds a malformed string has
\* failed with the invalid-parameter error while RepositoryStats has made no
\* network call, has executed no go statement and no goroutine has run, even
\* when other strings of the list are well formed.
C5_FailsBeforeFanOut ==
    SomeMalformed =>
        /\ ret.returned /\ ret.err = ErrInvalidParamFormat
        /\ statsNetCalls = 0
        /\ launched = 0
        /\ wgCounter = 0
        /\ \A u \in Units : unit[u] = "ready"
        /\ \A f \in MetricFields : writes[f] = <<>>

\* a list with a well-formed string first and a malformed one after it failed
C5_Witness ==
    /\ ret.returned
    /\ ret.err = ErrInvalidParamFormat
    /\ params = <<GoodParam, ShortParam>>

\* C6: in a run where LoadRepository is followed by RepositoryStats the quota
\* check has been made exactly once by the time LoadRepository has returned,
\* which is before any go statement, and it is never made again: not by
\* RepositoryStats and not by any goroutine.
C6_OneQuotaCheckBeforeFanOut ==
    /\ pc \in {"exit", "loaded", "launch", "wait", "returned"} => quotaChecks = 1
    /\ quotaChecks = 0 => (launched = 0 /\ \A u \in Units : unit[u] = "ready")
    /\ quotaChecks <= 1

\* every goroutine has run and the quota check was made once
C6_Witness ==
    /\ AllUnitsDone
    /\ statsNetCalls > 0
    /\ quotaChecks = 1

\* C7: after the quota check, time.Sleep has been called exactly when the
\* remaining core quota is below the floor, and then with the time left
\* until the reset as its int64 count of nanoseconds.
C7_SleepsUntilReset ==
    (quotaChecks = 1 /\ crashedBy # "pauseIfGitHubRateLimitExceeded") =>
        IF RateLimits(world).remaining < RateLimitFloor
        THEN sleep.called /\ sleep.arg = WaitTime(RateLimits(world))
        ELSE ~sleep.called

ParamScoreCalled == pc = "paramDone"

ParamValue(param) == IF param.kind = "int" THEN Float(param.v) ELSE param.v

\* C8 as stated: for p >= 0, weight > 0 and maxValue > 0, ParamScore is
\* strictly less than weight, also for p >= maxValue.
C8_StrictlyBelowWeight ==
    ParamScoreCalled => psOut < psIn.weight

\* C8, amended: for p >= 0, weight > 0 and maxValue > 0, ParamScore never
\* exceeds weight; it is strictly less than weight when p < maxValue and
\* equal to weight when p >= maxValue.
C8_AtMostWeight ==
    ParamScoreCalled =>
        /\ psOut <= psIn.weight
        /\ ParamValue(psIn.p) < psIn.maxValue => psOut < psIn.weight
        /\ ParamValue(psIn.p) >= psIn.maxValue => psOut = psIn.weight

\* ParamScore was applied to a p above maxValue and gave the weight
C8_Witness ==
    /\ ParamScoreCalled
    /\ ParamValue(psIn.p) > psIn.maxValue
    /\ psOut = psIn.weight

\* the ten metrics: field of Score, type of the field, threshold, weight
MetricTable ==
    <<[field |-> "CreatedSince", kind |-> "int",
       threshold |-> CreatedSinceThreshold, weight |-> CreatedSinceWeight],
      [field |-> "UpdatedSince", kind |-> "int",
       threshold |-> UpdatedSinceThreshold, weight |-> UpdatedSinceWeight],
      [field |-> "ContributorCount", kind |-> "int",
       threshold |-> ContributorCountThreshold, weight |-> ContributorCountWeight],
      [field |-> "OrgCount", kind |-> "int",
       threshold |-> OrgCountThreshold, weight |-> OrgCountWeight],
      [field |-> "CommitFrequency", kind |-> "float64",
       threshold |-> CommitFrequencyThreshold, weight |-> CommitFrequencyWeight],
      [field |-> "RecentReleasesCount", kind |-> "int",
       threshold |-> RecentReleasesThreshold, weight |-> RecentReleasesWeight],
      [field |-> "ClosedIssuesCount", kind |-> "int",
       threshold |-> ClosedIssuesThreshold, weight |-> ClosedIssuesWeight],
      [field |-> "UpdatedIssuesCount", kind |-> "int",
       threshold |-> UpdatedIssuesThreshold, weight |-> UpdatedIssuesWeight],
      [field |-> "CommentFrequency", kind |-> "float64",
       threshold |-> CommentFrequencyThreshold, weight |-> CommentFrequencyWeight],
      [field |-> "DependentsCount", kind |-> "int",
       threshold |-> DependentsCountThreshold, weight |-> DependentsCountWeight]>>

RECURSIVE SeqSum(_)
SeqSum(q) == IF q = <<>> THEN 0 ELSE Head(q) + SeqSum(Tail(q))

\* the sum of the per-metric and additional-parameter ParamScore values
ScoreSum(sc, aps) ==
    SeqSum([k \in 1..Len(MetricTable) |->
               LET m == MetricTable[k]
               IN  ParamScore([kind |-> m.kind, v |-> sc[m.field]],
                              m.threshold, m.weight)])
    + SeqSum([i \in 1..Len(aps) |->
                 ParamScore(FloatParam(aps[i].Value),
                            aps[i].MaxThreshold, aps[i].Weight)])

\* the sum of the fixed weights and the additional-parameter weights
WeightSum(aps) ==
    SeqSum([k \in 1..Len(MetricTable) |-> MetricTable[k].weight])
    + SeqSum([i \in 1..Len(aps) |-> aps[i].Weight])

Successful == ret.returned /\ ret.err = NoError

\* C9 as stated: on a successful run the criticality score is the score sum
\* divided by the weight sum, multiplied by 100, rounded to 5 decimal places.
C9_TimesHundred ==
    Successful =>
        LET n == ScoreSum(ret.score, additionalParams) * 100000
            d == WeightSum(additionalParams)
        IN  ret.score.CriticalityScore = 100 * (n \div d) + RoundDiv(100 * (n % d), d)

\* C9, amended: on a successful run the criticality score is the score sum
\* divided by the weight sum, rounded to 5 decimal places; it is not
\* multiplied by 100.
C9_RatioRounded ==
    Successful =>
        ret.score.CriticalityScore =
            RoundDiv(ScoreSum(ret.score, additionalParams) * 100000,
                     WeightSum(additionalParams))

\* a successful run with two additional parameters and a positive score
C9_Witness ==
    /\ Successful
    /\ Len(additionalParams) = 2
    /\ ret.score.CriticalityScore > 0
    /\ ret.score.DependentsCount > 0

\* C10: no provider, whatever its remote call answers, ends the process with
\* a panic.
C10_ProvidersNeverPanic == crashedBy \notin Providers

\* a stand-alone call of fn has returned
Called(fn) == pc = "providerDone" /\ call.fn = fn

\* the contributors whose organization ContributorOrgs is to resolve: the
\* first min(n, TopContributorCount)
TopRanks(c) ==
    1..(IF c.n < TopContributorCount THEN c.n ELSE TopContributorCount)

\* the distinct non-empty normalized organization names among them
NamedOrgs(c) ==
    {filterOrgName(Company(c, i)) : i \in TopRanks(c) \ c.unresolved} \ {<<>>}

\* C11: for a repository with n non-anonymous contributors, n < 15 included,
\* ContributorOrgs returns the set of distinct non-empty normalized
\* organization names of the first min(n, 15) contributors, and OrgCount is
\* the size of that set.
C11_OrgsOfTopContributors ==
    (Called("ContributorOrgs") /\ call.n <= ContributorCap) =>
        /\ ~result.panics
        /\ result.orgs = NamedOrgs(call)

\* C12: with more than 5000 non-anonymous contributors ContributorOrgs looks
\* up no user and returns the placeholder of 10 organizations.
C12_PlaceholderAboveCap ==
    (Called("ContributorOrgs") /\ call.n > ContributorCap) =>
        /\ result.userCalls = 0
        /\ result.orgs = PlaceholderOrgs
        /\ Cardinality(result.orgs) = 10

\* whole days since the repository was created
DaysOld(age) == age.hours \div 24

\* C13: with no release inside the 365-day window and a repository at least
\* one day old, RecentReleases returns about T * 365 / D for T tags over D
\* days (10 tags over 730 days give 5).
C13_EstimateFromTags ==
    (/\ Called("RecentReleases")
     /\ SelectSeq(call.releases, InWindow) = <<>>
     /\ DaysOld(call.age) >= 1
     /\ call.tags.ok) =>
        LET estimate == (call.tags.count * ReleaseLookbackDays) \div DaysOld(call.age)
        IN  /\ result.err = NoError
            /\ result.val \in (estimate - 1)..(estimate + 1)

\* the events the retry rule asks for from attempt i on: a fetch, then, after
\* a failure, the delay and the next attempt
RECURSIVE RetryEvents(_, _)
RetryEvents(outcomes, i) ==
    IF i > DependentsAttempts THEN <<>>
    ELSE IF outcomes[i] = "ok" THEN <<"get">>
         ELSE IF i = DependentsAttempts THEN <<"get">>
              ELSE <<"get", "sleep">> \o RetryEvents(outcomes, i + 1)

\* the events without a delay taken after the last attempt
BeforeLastDelay(events) ==
    IF events # <<>> /\ events[Len(events)] = "sleep"
       /\ Len(SelectSeq(events, LAMBDA e : e = "get")) = DependentsAttempts
    THEN SubSeq(events, 1, Len(events) - 1)
    ELSE events

\* C14: Dependents fetches the search page at most 3 times, stops at the
\* first success, waits the fixed delay after every transient failure
\* (transport error, body-read error, status other than 200) before the next
\* attempt, and takes no delay after a success.
C14_DelayAfterEveryFailure ==
    Called("Dependents") =>
        BeforeLastDelay(result.events) = RetryEvents(call.outcomes, 1)

\* the digits of a run of digits and commas, separators left out
RECURSIVE Digits(_)
Digits(run) ==
    IF run = <<>> THEN <<>>
    ELSE IF IsDigit(Head(run)) THEN <<Head(run)>> \o Digits(Tail(run))
         ELSE Digits(Tail(run))

\* what Dependents is to return on the content the fetch loop leaves: 0
\* without a match, the matched number otherwise
ScrapedNumber(content) ==
    LET match == FindSubmatch(content)
    IN  IF ~match.found THEN 0 ELSE Decimal(Digits(match.group))

\* the content that the attempts of d leave: the page of the first attempt
\* that succeeds and, with none, what the last failed read handed back
RECURSIVE ContentLeft(_, _)
ContentLeft(d, i) ==
    IF i = 0 THEN <<>>
    ELSE IF \E k \in 1..i : d.outcomes[k] = "ok" THEN d.page
         ELSE IF d.outcomes[i] = "readError" THEN d.partial
              ELSE ContentLeft(d, i - 1)

\* Dependents on the input d stores no error, does not panic and returns 0
\* or the matched number
DependentsYields(d) ==
    LET r == DependentsFrom(d)
    IN  /\ r.err = NoError
        /\ ~r.panics
        /\ r.val = ScrapedNumber(ContentLeft(d, DependentsAttempts))
        /\ (ContentLeft(d, DependentsAttempts) = <<>> => r.val = 0)

\* so it is on every input
DependentsContract == \A d \in DependentsInputs : DependentsYields(d)

\* only the fetch of the search page deviates in this run
OnlyScrapeFails ==
    /\ world.SearchPage # "ok"
    /\ \A c \in RemoteCalls \ {"SearchPage"} : world[c] = "ok"

\* C15: Dependents never stores a failure and never panics; on every page
\* content it returns 0 when nothing matches (the content is empty after
\* three failed attempts, or holds no "N commit results") and the matched
\* number without its thousands separators otherwise; a run in which only
\* the scrape fails still returns a score.
C15_DependentsNeverFails ==
    /\ DependentsContract
    /\ copyError["Dependents"] = NoError
    /\ crashedBy # "Dependents"
    /\ writes["DependentsCount"] # <<>> =>
           score.DependentsCount =
               IF world.SearchPage = "ok" THEN Repo.dependents ELSE 0
    /\ (OnlyScrapeFails /\ ret.returned /\ params = <<>>) =>
           /\ ret.err = NoError
           /\ ret.score.DependentsCount = 0
           /\ ret.score.CriticalityScore > 0

\* a run that returned a score although every fetch of the search page failed
C15_Witness ==
    /\ OnlyScrapeFails
    /\ world.SearchPage = "unreachable"
    /\ ret.returned
    /\ ret.err = NoError
    /\ ret.score.DependentsCount = 0
    /\ ret.score.ContributorCount > 0

\* the page count that the rel="last" link of the list carries: N for
\* page=N, 0 for every other link and without such a link
LastPage(links) ==
    IF \E i \in 1..Len(links) : links[i].rel = Last /\ links[i].page = "42"
    THEN 42
    ELSE IF \E i \in 1..Len(links) : links[i].rel = Last /\ links[i].page = "7"
         THEN 7
         ELSE 0

\* C16: totalCount returns N when the Link header has a rel="last" link whose
\* URL has the query parameter page=N, and 0, without failing, when there is
\* no Link header, no rel="last" link, or a page value that is no integer.
C16_TotalCountOfLastLink ==
    Called("totalCount") => result = LastPage(call.links)

\* a header with a next and a last link, the last one with page=42
C16_Witness ==
    /\ Called("totalCount")
    /\ Len(call.links) = 2
    /\ call.links[2] = [rel |-> Last, page |-> "42"]
    /\ result = 42

\* C17: the comment-frequency provider starts only after the updated-issue
\* provider has returned on the same goroutine, it is passed the value stored
\* in UpdatedIssuesCount, and before the barrier no other goroutine reads or
\* writes either of the two fields.
C17_CommentFrequencyAfterUpdatedIssues ==
    /\ commentCall.started =>
           /\ writes["UpdatedIssuesCount"] = <<8>>
           /\ commentCall.issueCount = score.UpdatedIssuesCount
           /\ commentCall.issueCount = UpdatedIssues(world).val
    /\ writes["CommentFrequency"] # <<>> => commentCall.started
    /\ \A f \in {"UpdatedIssuesCount", "CommentFrequency"} :
           \A i \in 1..Len(writes[f]) : writes[f][i] = 8
    /\ commentCall.readBy \subseteq {8}

\* the eighth goroutine is done, other goroutines are still running, and
\* CommentFrequency was given a count that is not the example's
C17_Witness ==
    /\ commentCall.started
    /\ commentCall.issueCount = 0
    /\ world.ListIssuesAll = "none"
    /\ unit[8] = "done"
    /\ \E u \in Units : unit[u] = "ready"

\* C18: the Error that RepositoryStats inspects after the barrier is the
\* Error of the GitHubRepository it was given: no provider changes it, each
\* one assigning Error in its own copy.
C18_ErrorUnchangedByProviders ==
    (pc \in {"launch", "wait"} \/ ReturnedPastParsing) =>
        /\ ghrError = EntryError(world)
        /\ ReturnedPastParsing => ret.err = EntryError(world)

\* a provider stored a failure, and RepositoryStats found Error as it was
C18_Witness ==
    /\ ReturnedPastParsing
    /\ FailedProviders # {}
    /\ world.Caller = "ok"
    /\ ghrError = NoError

====
